---- MODULE Spec2Model ----
(***************************************************************************)
(* Model of src/lib/dutchie-utils.ts: the timed GraphQL client             *)
(* (fetchFromDutchie), the two cache-aside readers (fetchDutchieStores,    *)
(* fetchStoreSpecials) and the settle-all aggregator                       *)
(* (fetchMultipleStoreSpecials), together with the Cloudflare KV namespace *)
(* they share.                                                             *)
(*                                                                         *)
(* JavaScript values are represented as follows.                           *)
(*   - a string built by a template literal is the sequence of its pieces  *)
(*     (`${name}: ${msg}` is <<name, ": ">> \o msg);                       *)
(*   - an array is a sequence, an object a record;                         *)
(*   - null is the integer Null for a price, and a has-flag for a property *)
(*     that may be missing (data.retailers, data.menu.products,            *)
(*     payload.errors);                                                    *)
(*   - JSON text is a nested tuple (JSONStringify), parsed back by the     *)
(*     JSONParse operators.                                                *)
(***************************************************************************)
EXTENDS Integers, Sequences, FiniteSets, TLC

\* ------------------------------------------------------------------------
\* Bounds of the model
\* ------------------------------------------------------------------------

\* longest store list handed to fetchMultipleStoreSpecials
MaxStores == 2

\* ------------------------------------------------------------------------
\* Program constants
\* ------------------------------------------------------------------------

API_TIMEOUT_MS == 10000

CACHE_TTL_SECONDS == 900

\* JavaScript null in a numeric position (specialPriceRec)
Null == -1

\* ------------------------------------------------------------------------
\* Data: stores, products, variants
\* ------------------------------------------------------------------------

StoreA == [id |-> "idA", name |-> "A"]
StoreB == [id |-> "idB", name |-> "B"]
StoreUniverse == {StoreA, StoreB}

StoreIds == {s.id : s \in StoreUniverse}

Variant(price, special) == [priceRec |-> price, specialPriceRec |-> special]

\* discounted below the regular price
ProdDeal == [id |-> "p1", variants |-> <<Variant(1000, 750)>>]
\* no discounted price
ProdPlain == [id |-> "p2", variants |-> <<Variant(1000, Null)>>]
\* discounted price equal to the regular price
ProdEqual == [id |-> "p3", variants |-> <<Variant(1000, 1000)>>]
\* second variant discounted
ProdSecond == [id |-> "p4", variants |-> <<Variant(2000, Null), Variant(1500, 1200)>>]

\* menu.products of an upstream specials response
Menus ==
  { <<>>,
    <<ProdPlain, ProdEqual>>,
    <<ProdDeal, ProdPlain, ProdSecond>> }

\* retailers of an upstream store-list response
RetailerLists == { <<>>, <<StoreA, StoreB>> }

\* ------------------------------------------------------------------------
\* JSON.stringify / JSON.parse (kv.put stores text, kv.get(key, 'json')
\* parses it)
\* ------------------------------------------------------------------------

StringifyVariant(v) == <<v.priceRec, v.specialPriceRec>>

StringifyProduct(p) ==
  <<p.id, [j \in 1..Len(p.variants) |-> StringifyVariant(p.variants[j])]>>

\* variant: only the first product is written
StringifyProductsFirstOnly(ps) ==
  [i \in 1..(IF Len(ps) > 0 THEN 1 ELSE 0) |-> StringifyProduct(ps[i])]

StringifyProducts(ps) == [i \in 1..Len(ps) |-> StringifyProduct(ps[i])]

ParseVariant(t) == [priceRec |-> t[1], specialPriceRec |-> t[2]]

ParseProduct(t) ==
  [id |-> t[1], variants |-> [j \in 1..Len(t[2]) |-> ParseVariant(t[2][j])]]

\* variant: the last product is lost on the way back
ParseProductsDropsLast(text) ==
  [i \in 1..(Len(text) - 1) |-> ParseProduct(text[i])]

ParseProducts(text) == [i \in 1..Len(text) |-> ParseProduct(text[i])]

StringifyStores(ss) == [i \in 1..Len(ss) |-> <<ss[i].id, ss[i].name>>]

\* variant: id and name change places on the way back
ParseStoresSwapped(text) == [i \in 1..Len(text) |-> [id |-> text[i][2], name |-> text[i][1]]]

ParseStores(text) == [i \in 1..Len(text) |-> [id |-> text[i][1], name |-> text[i][2]]]

\* ------------------------------------------------------------------------
\* Upstream HTTP responses and fetchFromDutchie
\* ------------------------------------------------------------------------

\* An upstream response: delivery = "intime" (fetch resolves before the
\* timer fires), "timeout" (the timer aborts the request) or "neterror"
\* (fetch rejects for another reason); status/body = HTTP status and text;
\* parsable = the body is JSON;
\* hasErrors/errors = the payload's errors member; data = the payload's data
\* member, reduced to the one list the callers read (menu.products or
\* retailers): has = the member is present, list = its value.
Response(delivery, status, parsable, hasErrors, errors, has, list) ==
  [delivery |-> delivery, status |-> status, body |-> "body",
   parsable |-> parsable, hasErrors |-> hasErrors, errors |-> errors,
   data |-> [has |-> has, list |-> list]]

OkResponse(has, list) ==
  Response("intime", 200, TRUE, FALSE, <<>>, has, list)

FailedResponses ==
  { Response("timeout", 200, TRUE, FALSE, <<>>, FALSE, <<>>),
    Response("neterror", 200, TRUE, FALSE, <<>>, FALSE, <<>>),
    Response("intime", 500, FALSE, FALSE, <<>>, FALSE, <<>>),
    Response("intime", 200, FALSE, FALSE, <<>>, FALSE, <<>>),
    Response("intime", 200, TRUE, TRUE, <<"m1", "m2">>, FALSE, <<>>),
    Response("intime", 200, TRUE, TRUE, <<>>, FALSE, <<>>) }

SpecialsResponses ==
  FailedResponses \cup {OkResponse(FALSE, <<>>)}
    \cup {OkResponse(TRUE, m) : m \in Menus}

StoresResponses ==
  FailedResponses \cup {OkResponse(FALSE, <<>>)}
    \cup {OkResponse(TRUE, r) : r \in RetailerLists}

Threw(message) ==
  [threw |-> TRUE, message |-> message, data |-> [has |-> FALSE, list |-> <<>>]]

Returned(data) == [threw |-> FALSE, message |-> <<>>, data |-> data]

\* Array.prototype.join
RECURSIVE Join(_, _)
Join(strs, sep) ==
  IF Len(strs) = 0 THEN <<>>
  ELSE IF Len(strs) = 1 THEN <<strs[1]>>
  ELSE <<strs[1], sep>> \o Join(Tail(strs), sep)

\* response.ok
ResponseOk(resp) == resp.status >= 200 /\ resp.status <= 299

\* the response is handed on when it arrives in time; when the timer aborts
\* the request the AbortError is replaced by the timeout error; any other
\* error of fetch is rethrown as it is
fetchWithTimeout(resp, timeoutMs) ==
  IF resp.delivery = "intime"
    THEN Returned(resp.data)
  ELSE IF resp.delivery = "timeout"
    THEN Threw(<<"Request timeout after ", ToString(timeoutMs), "ms">>)
  ELSE Threw(<<"fetch failed">>)

\* `if (data.errors)` takes any errors array, an empty one included (an
\* array is truthy); JSON.parse of an unparsable body throws a SyntaxError
fetchFromDutchie(resp, timeoutMs) ==
  IF fetchWithTimeout(resp, timeoutMs).threw
    THEN fetchWithTimeout(resp, timeoutMs)
  ELSE IF ~ResponseOk(resp)
    THEN Threw(<<"API Error: ", ToString(resp.status), " - ", resp.body>>)
  ELSE IF ~resp.parsable
    THEN Threw(<<"SyntaxError">>)
  ELSE IF resp.hasErrors
    THEN Threw(<<"GraphQL Error: ">> \o Join(resp.errors, ", "))
  ELSE Returned(resp.data)

\* ------------------------------------------------------------------------
\* The KV namespace
\* ------------------------------------------------------------------------

StoresKey == <<"dutchie:stores:all">>

\* variant: the store id is left out of the key
SharedSpecialsKey(storeId) == <<"dutchie:specials:", "idA">>

\* `dutchie:specials:${storeId}`
SpecialsKey(storeId) == <<"dutchie:specials:", storeId>>

Keys == {StoresKey} \cup {SpecialsKey(id) : id \in StoreIds}

\* the page-render contexts a caller may pass as locals: none, one without
\* the DUTCHIE_CACHE binding, one with it
LocalsChoices == {"undefined", "nobinding", "kv"}

\* locals?.runtime?.env?.DUTCHIE_CACHE, as a truth value
getKVNamespace(locals) == locals = "kv"

\* an entry as kv.put writes it
Entry(text, ttl) == [text |-> text, ttl |-> ttl]

\* kv.get: null when the key is absent (or expired)
KVGet(c, key) ==
  IF c[key] = <<>> THEN [has |-> FALSE, text |-> <<>>]
  ELSE [has |-> TRUE, text |-> c[key][1].text]

KVPut(c, key, text, ttl) == [c EXCEPT ![key] = <<Entry(text, ttl)>>]

\* ------------------------------------------------------------------------
\* fetchStoreSpecials: the pure parts
\* ------------------------------------------------------------------------

\* JavaScript truthiness of a price
Truthy(n) == n # Null /\ n # 0

IsOnSpecial(product) ==
  \E j \in 1..Len(product.variants) :
    /\ Truthy(product.variants[j].specialPriceRec)
    /\ product.variants[j].specialPriceRec # product.variants[j].priceRec

\* variant: the first product on special is passed over
FilterSpecialsSkipsFirst(products) ==
  LET kept == SelectSeq(products, IsOnSpecial)
  IN  IF kept = <<>> THEN kept ELSE Tail(kept)

FilterSpecials(products) == SelectSeq(products, IsOnSpecial)

\* variant: the cached value is never taken (the read would be useless)
SpecialsCacheIgnored(cached) == FALSE

\* `if (cached)`: the parsed value is an array, which is truthy even when
\* empty; only null (no entry) is falsy
SpecialsCacheHit(cached) == cached.has

\* `if (kv)` before the put of the filtered specials
ShouldCacheSpecials(kv, specialProducts) == kv

\* how a settled promise is recorded
Fulfilled(value) == [status |-> "fulfilled", value |-> value, reason |-> <<>>]

Rejected(reason) == [status |-> "rejected", value |-> <<>>, reason |-> reason]

Pending == [status |-> "pending", value |-> <<>>, reason |-> <<>>]

\* catch around kv.get: warn, fall through to the upstream fetch
SpecialsOnCacheReadError == [pc |-> "fetch", out |-> Pending]

\* variant: the catch rethrows instead of returning []
SpecialsRethrows(message) == Rejected(message)

\* catch around the upstream fetch: log, return []
SpecialsOnUpstreamError(message) == Fulfilled(<<>>)

\* else branch of `if (specialsData?.menu?.products)`: return []
SpecialsOnNoMenu == Fulfilled(<<>>)

\* variant: no try around kv.put, so that its failure lands in the outer
\* catch, which returns []
SpecialsWriteErrorLosesResult(specialProducts) == Fulfilled(<<>>)

\* catch around kv.put: warn, go on to `return specialProducts`
SpecialsOnCacheWriteError(specialProducts) == Fulfilled(specialProducts)

\* ------------------------------------------------------------------------
\* fetchDutchieStores: the pure parts
\* ------------------------------------------------------------------------

\* `if (cached)` on the parsed store list
StoresCacheHit(cached) == cached.has

\* data?.retailers || []
RetailersOf(data) == IF data.has THEN data.list ELSE <<>>

\* `if (kv && stores.length > 0)`
ShouldCacheStores(kv, stores) == kv /\ Len(stores) > 0

\* catch around kv.get: warn, fall through to the upstream fetch
StoresOnCacheReadError == [pc |-> "fetch", out |-> Pending]

\* variant: the catch rethrows instead of returning []
StoresRethrows(message) == Rejected(message)

\* catch around the upstream fetch: log, return []
StoresOnUpstreamError(message) == Fulfilled(<<>>)

\* catch around kv.put: warn, go on to `return stores`
StoresOnCacheWriteError(stores) == Fulfilled(stores)

\* ------------------------------------------------------------------------
\* fetchMultipleStoreSpecials: the pure parts
\* ------------------------------------------------------------------------

\* .then(products => ({ store, products })) on a per-store promise
ThenWrap(store, out) ==
  IF out.status = "fulfilled"
    THEN Fulfilled([store |-> store, products |-> out.value])
    ELSE out

\* Promise.allSettled: one result per promise, at the promise's index
AllSettled(stores, outs) == [i \in 1..Len(outs) |-> ThenWrap(stores[i], outs[i])]

\* variant: >= in place of >
HasSpecialsOrNone(products) == Len(products) >= 0

\* `if (products.length > 0)`
HasSpecials(products) == Len(products) > 0

SpecialsEntry(store, products) ==
  [store |-> store, products |-> products, specialCount |-> Len(products)]

\* variant: unshift in place of push
UnshiftStoreSpecial(storeSpecials, entry) == <<entry>> \o storeSpecials

\* storeSpecials.push(entry)
PushStoreSpecial(storeSpecials, entry) == Append(storeSpecials, entry)

\* variant: counts the store, not its products
AddSpecialsCountsStores(totalSpecials, products) == totalSpecials + 1

\* totalSpecials += products.length
AddSpecials(totalSpecials, products) == totalSpecials + Len(products)

\* `${store.name}: ${result.reason?.message || 'Unknown error'}`
ErrorEntry(store, reason) ==
  <<store.name, ": ">> \o (IF reason = <<>> THEN <<"Unknown error">> ELSE reason)

\* the accumulators of the result loop; ssPos and errPos record, for each
\* entry pushed, the loop index that pushed it
EmptyAcc ==
  [storeSpecials |-> <<>>, totalSpecials |-> 0, errors |-> <<>>,
   ssPos |-> <<>>, errPos |-> <<>>]

\* one iteration of `for (let i = 0; i < results.length; i++)`
ProcessResult(result, store, i, acc) ==
  IF result.status = "fulfilled"
    THEN IF HasSpecials(result.value.products)
           THEN [acc EXCEPT
                   !.storeSpecials =
                     PushStoreSpecial(@, SpecialsEntry(store, result.value.products)),
                   !.totalSpecials = AddSpecials(@, result.value.products),
                   !.ssPos = Append(@, i)]
           ELSE acc
    ELSE [acc EXCEPT
            !.errors = Append(@, ErrorEntry(store, result.reason)),
            !.errPos = Append(@, i)]

RECURSIVE ProcessResults(_, _, _, _)
ProcessResults(results, stores, i, acc) ==
  IF i > Len(results) THEN acc
  ELSE ProcessResults(results, stores, i + 1,
                      ProcessResult(results[i], stores[i], i, acc))

\* variant: a division that throws on a zero divisor
SuccessRateDivides(withSpecials, total) ==
  IF total = 0
    THEN [threw |-> TRUE, nan |-> FALSE, tenths |-> 0]
    ELSE [threw |-> FALSE, nan |-> FALSE,
          tenths |-> (2 * 1000 * withSpecials + total) \div (2 * total)]

\* ((storeSpecials.length / stores.length) * 100).toFixed(1) of the
\* success-rate log line: 0/0 is NaN and toFixed prints "NaN"; nothing throws.
\* Otherwise the percentage in tenths, rounded half up.
SuccessRate(withSpecials, total) ==
  IF total = 0
    THEN [threw |-> FALSE, nan |-> TRUE, tenths |-> 0]
    ELSE [threw |-> FALSE, nan |-> FALSE,
          tenths |-> (2 * 1000 * withSpecials + total) \div (2 * total)]

\* ------------------------------------------------------------------------
\* State
\* ------------------------------------------------------------------------

VARIABLES
  cache,    \* the KV namespace: key -> <<>> (no entry) or <<Entry>>
  locals,   \* the locals argument of the call in progress
  sc,       \* the fetchDutchieStores call in progress
  stores,   \* the stores argument of the fetchMultipleStoreSpecials call
  tasks,    \* its per-store fetchStoreSpecials calls, by input position
  agg,      \* the fetchMultipleStoreSpecials call itself
  logged,   \* what the step just taken wrote with console.warn or
            \* console.error, if it did
  pure,     \* SpecPure: one application of a pure function
  req,      \* SpecTimeout: one fetchFromDutchie call, step by step
  history,  \* SpecRepeat: what earlier calls did for each cache key;
            \* SpecFixed: what the upstream answers for each key
  batch     \* SpecBatch: the fetchStoreSpecialsInBatches call

vars == <<cache, locals, sc, stores, tasks, agg, logged, pure, req, history, batch>>

\* Each specification below moves a part of the state and leaves the rest
\* parked.
Parked == "parked"

calls == <<cache, locals, sc, stores, tasks, agg, logged>>

\* One call of fetchDutchieStores or fetchStoreSpecials.
\*   pc       where the call is suspended: "get" (awaiting kv.get), "fetch"
\*            (awaiting fetchFromDutchie), "put" (awaiting kv.put), "settled"
\*   out      how its promise settled
\*   result   the value computed from the upstream, held across the put
\* and, recorded for the properties: got (<<text>> when kv.get returned an
\* entry), calls (upstream requests issued), up (what the upstream request
\* came to: "failed", "ok", or the list the caller reads is missing from the
\* data: "nomenu", "nodata").
NewCall(kv) ==
  [pc |-> IF kv THEN "get" ELSE "fetch", out |-> Pending, result |-> <<>>,
   got |-> <<>>, calls |-> 0, up |-> "none"]

IdleCall == [NewCall(FALSE) EXCEPT !.pc = "idle"]

\* The fetchMultipleStoreSpecials call: pc is "idle", "awaiting" (suspended
\* at Promise.allSettled), "returned" or "threw"; ret is the returned object
\* (duration, a wall-clock reading, is left out); outOfOrder records, for the
\* properties, that some promise settled while one before it in the input
\* was still pending.
IdleAgg == [pc |-> "idle", ret |-> EmptyAcc, outOfOrder |-> FALSE]

NoteOrder(a, ts, i) ==
  IF /\ ts[i].out.status # "pending"
     /\ \E j \in 1..(i - 1) : ts[j].out.status = "pending"
    THEN [a EXCEPT !.outOfOrder = TRUE]
    ELSE a

\* console.warn('Cache read failed' / 'Cache write failed') and
\* console.error('Error fetching ...', message), by the fetchDutchieStores
\* call (who = 0) or by task who
NoLog == [what |-> "none", who |-> 0, message |-> <<>>]

CacheReadFailed(who) == [what |-> "read", who |-> who, message |-> <<>>]

CacheWriteFailed(who) == [what |-> "write", who |-> who, message |-> <<>>]

FetchError(who, message) == [what |-> "error", who |-> who, message |-> message]

\* The store lists a caller passes: every list of at most MaxStores stores,
\* duplicates included, up to renaming of the stores (nothing in the code
\* tells one store from another, so each list stands for its renamings and
\* the first store named is StoreA).
StoreLists ==
  {list \in UNION {[1..n -> StoreUniverse] : n \in 0..MaxStores} :
     Len(list) > 0 => list[1] = StoreA}

\* no call has been made and the cache is empty
InitCalls ==
  /\ cache = [k \in Keys |-> <<>>]
  /\ locals = "undefined"
  /\ sc = IdleCall
  /\ stores = <<>>
  /\ tasks = <<>>
  /\ agg = IdleAgg
  /\ logged = NoLog

Init ==
  /\ InitCalls
  /\ pure = Parked
  /\ req = Parked
  /\ history = Parked
  /\ batch = Parked

NoCallInProgress == sc.pc = "idle" /\ agg.pc = "idle"

\* ------------------------------------------------------------------------
\* fetchStoreSpecials(stores[i].id, stores[i].name, locals), as task i
\* ------------------------------------------------------------------------

\* kv.get(cacheKey, 'json') completes
fetchStoreSpecials_Get(i) ==
  /\ tasks[i].pc = "get"
  /\ \/ \* kv.get throws
        /\ tasks' = [tasks EXCEPT ![i] =
                       [@ EXCEPT !.pc = SpecialsOnCacheReadError.pc,
                                 !.out = SpecialsOnCacheReadError.out]]
        /\ logged' = CacheReadFailed(i)
     \/ \* kv.get returns
        LET cached == KVGet(cache, SpecialsKey(stores[i].id))
            seen == IF cached.has THEN <<cached.text>> ELSE <<>>
        IN  /\ tasks' = [tasks EXCEPT ![i] =
                           IF SpecialsCacheHit(cached)
                             THEN [@ EXCEPT !.pc = "settled",
                                            !.out = Fulfilled(ParseProducts(cached.text)),
                                            !.got = seen]
                             ELSE [@ EXCEPT !.pc = "fetch", !.got = seen]]
            /\ logged' = NoLog
  /\ agg' = NoteOrder(agg, tasks', i)
  /\ UNCHANGED <<cache, locals, sc, stores>>

\* variant: the catch block goes on to the cache write
AfterUpstreamErrorPuts == "put"

\* `catch (error) { console.error(...); return []; }`: the call returns
\* from the catch block, past the cache write
AfterUpstreamError == "settled"

\* variant: one AbortController shared by the requests of all the tasks
SharedAbortScope(i) == 1..Len(tasks)

\* `const controller = new AbortController()` in fetchWithTimeout: each
\* request has a controller and a timer of its own, so the timer of task i
\* aborts the request of task i and no other
AbortScope(i) == {i}

\* fetchFromDutchie(SPECIALS_QUERY, {retailerId}) completes on the response
\* resp, and the code runs on to the next await or to its return
fetchStoreSpecials_Receive(i, resp) ==
  /\ tasks[i].pc = "fetch"
  /\ LET r == fetchFromDutchie(resp, API_TIMEOUT_MS)
         specialProducts == FilterSpecials(r.data.list)
         t == [tasks[i] EXCEPT !.calls = @ + 1]
         aborted == IF resp.delivery = "timeout" THEN AbortScope(i) ELSE {i}
     IN
     /\ tasks' = [k \in 1..Len(tasks) |->
           IF k # i
             THEN IF k \in aborted /\ tasks[k].pc = "fetch"
                    THEN [tasks[k] EXCEPT !.calls = @ + 1, !.pc = "settled",
                                          !.up = "failed",
                                          !.out = SpecialsOnUpstreamError(r.message)]
                    ELSE tasks[k]
           ELSE IF r.threw
             THEN [t EXCEPT !.pc = AfterUpstreamError, !.up = "failed",
                            !.out = SpecialsOnUpstreamError(r.message)]
           ELSE IF ~r.data.has
             THEN [t EXCEPT !.pc = "settled", !.up = "nomenu",
                            !.out = SpecialsOnNoMenu]
           ELSE IF ShouldCacheSpecials(getKVNamespace(locals), specialProducts)
             THEN [t EXCEPT !.pc = "put", !.up = "ok",
                            !.result = specialProducts]
           ELSE [t EXCEPT !.pc = "settled", !.up = "ok",
                          !.result = specialProducts,
                          !.out = Fulfilled(specialProducts)]]
     /\ logged' = IF r.threw THEN FetchError(i, r.message) ELSE NoLog
  /\ agg' = NoteOrder(agg, tasks', i)
  /\ UNCHANGED <<cache, locals, sc, stores>>

\* the upstream answers the request of task i in any of the ways it can
fetchStoreSpecials_Fetch(i) ==
  \E resp \in SpecialsResponses : fetchStoreSpecials_Receive(i, resp)

\* kv.put(cacheKey, JSON.stringify(specialProducts), {expirationTtl}) completes
fetchStoreSpecials_Put(i) ==
  /\ tasks[i].pc = "put"
  /\ \/ \* kv.put throws
        /\ tasks' = [tasks EXCEPT ![i] =
                       [@ EXCEPT !.pc = "settled",
                                 !.out = SpecialsOnCacheWriteError(tasks[i].result)]]
        /\ logged' = CacheWriteFailed(i)
        /\ UNCHANGED cache
     \/ \* kv.put succeeds
        /\ cache' = KVPut(cache, SpecialsKey(stores[i].id),
                          StringifyProducts(tasks[i].result), CACHE_TTL_SECONDS)
        /\ tasks' = [tasks EXCEPT ![i] =
                       [@ EXCEPT !.pc = "settled",
                                 !.out = Fulfilled(tasks[i].result)]]
        /\ logged' = NoLog
  /\ agg' = NoteOrder(agg, tasks', i)
  /\ UNCHANGED <<locals, sc, stores>>

\* ------------------------------------------------------------------------
\* fetchMultipleStoreSpecials(stores, locals)
\* ------------------------------------------------------------------------

\* the call: stores.map starts fetchStoreSpecials for every store, each
\* running to its first await, and the caller awaits Promise.allSettled
fetchMultipleStoreSpecials_Call(list, l) ==
  /\ stores' = list
  /\ locals' = l
  /\ tasks' = [i \in 1..Len(list) |-> NewCall(getKVNamespace(l))]
  /\ agg' = [IdleAgg EXCEPT !.pc = "awaiting"]
  /\ logged' = NoLog
  /\ UNCHANGED <<cache, sc>>

\* a page calls it with a store list and its locals
fetchMultipleStoreSpecials_Start ==
  /\ NoCallInProgress
  /\ \E list \in StoreLists, l \in LocalsChoices :
       fetchMultipleStoreSpecials_Call(list, l)

\* variant: the wait ends when any one promise has settled (Promise.race)
SomeTaskSettled == \E i \in 1..Len(tasks) : tasks[i].out.status # "pending"

AllTasksSettled == \A i \in 1..Len(tasks) : tasks[i].out.status # "pending"

\* Promise.allSettled resolves; the result loop, the log lines and the
\* return statement run
fetchMultipleStoreSpecials_Join ==
  /\ agg.pc = "awaiting"
  /\ AllTasksSettled
  /\ LET results == AllSettled(stores, [i \in 1..Len(tasks) |-> tasks[i].out])
         acc == ProcessResults(results, stores, 1, EmptyAcc)
         rate == SuccessRate(Len(acc.storeSpecials), Len(stores))
     IN  agg' = IF rate.threw
                  THEN [agg EXCEPT !.pc = "threw"]
                  ELSE [agg EXCEPT !.pc = "returned", !.ret = acc]
  /\ logged' = NoLog
  /\ UNCHANGED <<cache, locals, sc, stores, tasks>>

\* the caller has taken the result
fetchMultipleStoreSpecials_Done ==
  /\ agg.pc \in {"returned", "threw"}
  /\ agg' = IdleAgg
  /\ stores' = <<>>
  /\ tasks' = <<>>
  /\ locals' = "undefined"
  /\ logged' = NoLog
  /\ UNCHANGED <<cache, sc>>

\* ------------------------------------------------------------------------
\* fetchDutchieStores(locals)
\* ------------------------------------------------------------------------

fetchDutchieStores_Start ==
  /\ NoCallInProgress
  /\ \E l \in LocalsChoices :
       /\ locals' = l
       /\ sc' = NewCall(getKVNamespace(l))
  /\ logged' = NoLog
  /\ UNCHANGED <<cache, stores, tasks, agg>>

\* kv.get(cacheKey, 'json') completes
fetchDutchieStores_Get ==
  /\ sc.pc = "get"
  /\ \/ \* kv.get throws
        /\ sc' = [sc EXCEPT !.pc = StoresOnCacheReadError.pc,
                            !.out = StoresOnCacheReadError.out]
        /\ logged' = CacheReadFailed(0)
     \/ \* kv.get returns
        LET cached == KVGet(cache, StoresKey)
            seen == IF cached.has THEN <<cached.text>> ELSE <<>>
        IN  /\ sc' = IF StoresCacheHit(cached)
                       THEN [sc EXCEPT !.pc = "settled",
                                        !.out = Fulfilled(ParseStores(cached.text)),
                                        !.got = seen]
                       ELSE [sc EXCEPT !.pc = "fetch", !.got = seen]
            /\ logged' = NoLog
  /\ UNCHANGED <<cache, locals, stores, tasks, agg>>

\* fetchFromDutchie(STORES_QUERY, {}) completes on the response resp
fetchDutchieStores_Receive(resp) ==
  /\ sc.pc = "fetch"
  /\ LET r == fetchFromDutchie(resp, API_TIMEOUT_MS)
         retailers == RetailersOf(r.data)
         t == [sc EXCEPT !.calls = @ + 1]
     IN
     /\ sc' =
           IF r.threw
             THEN [t EXCEPT !.pc = "settled", !.up = "failed",
                            !.out = StoresOnUpstreamError(r.message)]
           ELSE IF ShouldCacheStores(getKVNamespace(locals), retailers)
             THEN [t EXCEPT !.pc = "put", !.up = "ok", !.result = retailers]
           ELSE [t EXCEPT !.pc = "settled",
                          !.up = IF r.data.has THEN "ok" ELSE "nodata",
                          !.result = retailers,
                          !.out = Fulfilled(retailers)]
     /\ logged' = IF r.threw THEN FetchError(0, r.message) ELSE NoLog
  /\ UNCHANGED <<cache, locals, stores, tasks, agg>>

\* the upstream answers the request in any of the ways it can
fetchDutchieStores_Fetch ==
  \E resp \in StoresResponses : fetchDutchieStores_Receive(resp)

\* kv.put(cacheKey, JSON.stringify(stores), {expirationTtl}) completes
fetchDutchieStores_Put ==
  /\ sc.pc = "put"
  /\ \/ \* kv.put throws
        /\ sc' = [sc EXCEPT !.pc = "settled",
                            !.out = StoresOnCacheWriteError(sc.result)]
        /\ logged' = CacheWriteFailed(0)
        /\ UNCHANGED cache
     \/ \* kv.put succeeds
        /\ cache' = KVPut(cache, StoresKey, StringifyStores(sc.result),
                          CACHE_TTL_SECONDS)
        /\ sc' = [sc EXCEPT !.pc = "settled", !.out = Fulfilled(sc.result)]
        /\ logged' = NoLog
  /\ UNCHANGED <<locals, stores, tasks, agg>>

\* the caller has taken the result
fetchDutchieStores_Done ==
  /\ sc.pc = "settled"
  /\ sc' = IdleCall
  /\ locals' = "undefined"
  /\ logged' = NoLog
  /\ UNCHANGED <<cache, stores, tasks, agg>>

\* ------------------------------------------------------------------------
\* The KV namespace drops an entry whose TTL has run out
\* ------------------------------------------------------------------------

KVExpire(key) ==
  /\ cache[key] # <<>>
  /\ cache' = [cache EXCEPT ![key] = <<>>]
  /\ logged' = NoLog
  /\ UNCHANGED <<locals, sc, stores, tasks, agg>>

\* ------------------------------------------------------------------------
\* Specification
\* ------------------------------------------------------------------------

Next ==
  \/ fetchDutchieStores_Start /\ UNCHANGED <<pure, req, history, batch>>
  \/ fetchDutchieStores_Get /\ UNCHANGED <<pure, req, history, batch>>
  \/ fetchDutchieStores_Fetch /\ UNCHANGED <<pure, req, history, batch>>
  \/ fetchDutchieStores_Put /\ UNCHANGED <<pure, req, history, batch>>
  \/ fetchDutchieStores_Done /\ UNCHANGED <<pure, req, history, batch>>
  \/ fetchMultipleStoreSpecials_Start /\ UNCHANGED <<pure, req, history, batch>>
  \/ \E i \in 1..Len(tasks) :
       fetchStoreSpecials_Get(i) /\ UNCHANGED <<pure, req, history, batch>>
  \/ \E i \in 1..Len(tasks) :
       fetchStoreSpecials_Fetch(i) /\ UNCHANGED <<pure, req, history, batch>>
  \/ \E i \in 1..Len(tasks) :
       fetchStoreSpecials_Put(i) /\ UNCHANGED <<pure, req, history, batch>>
  \/ fetchMultipleStoreSpecials_Join /\ UNCHANGED <<pure, req, history, batch>>
  \/ fetchMultipleStoreSpecials_Done /\ UNCHANGED <<pure, req, history, batch>>
  \/ \E key \in Keys : KVExpire(key) /\ UNCHANGED <<pure, req, history, batch>>

Spec == Init /\ [][Next]_vars

\* ------------------------------------------------------------------------
\* Properties
\* ------------------------------------------------------------------------

N == Len(stores)

Ret == agg.ret

Returned_ == agg.pc = "returned"

InSeq(x, seq) == \E j \in 1..Len(seq) : seq[j] = x

Injective(seq) ==
  \A j, k \in 1..Len(seq) : j # k => seq[j] # seq[k]

\* the input positions whose fetchStoreSpecials returned a non-empty
\* sequence, in input order
NonEmptyPositions ==
  SelectSeq([i \in 1..Len(tasks) |-> i],
            LAMBDA i : tasks[i].out.status = "fulfilled"
                       /\ Len(tasks[i].out.value) > 0)

RECURSIVE SumCounts(_)
SumCounts(entries) ==
  IF Len(entries) = 0 THEN 0
  ELSE entries[1].specialCount + SumCounts(Tail(entries))

\* the call that logged the last line
Caller(who) == IF who = 0 THEN sc ELSE tasks[who]

\* C1 (as the spec states it): in the result of fetchMultipleStoreSpecials,
\* every store whose upstream fetch failed has exactly one entry in errors,
\* beginning "{storeName}: ", and no entry in storeSpecials.
C1_FailedStoreInErrors ==
  Returned_ =>
    \A i \in 1..N :
      tasks[i].up = "failed" =>
        /\ Cardinality({j \in 1..Len(Ret.errPos) : Ret.errPos[j] = i}) = 1
        /\ \A j \in 1..Len(Ret.errPos) :
             Ret.errPos[j] = i =>
               SubSeq(Ret.errors[j], 1, 2) = <<stores[i].name, ": ">>
        /\ ~InSeq(i, Ret.ssPos)

\* C2: fetchMultipleStoreSpecials never throws: whatever the store list
\* (empty, with duplicates) and whatever the upstream and the cache did for
\* each store, the call ends by returning its result object.
C2_NeverThrows ==
  /\ agg.pc # "threw"
  /\ Returned_ =>
       /\ Ret.totalSpecials >= 0
       /\ Len(Ret.storeSpecials) <= N
       /\ Len(Ret.errors) <= N

C2_Witness ==
  /\ Returned_
  /\ N = 2
  /\ stores[1] = stores[2]
  /\ getKVNamespace(locals)
  /\ tasks[1].up = "failed"
  /\ tasks[2].got # <<>>

\* C3: fetchStoreSpecials never rejects, and when its upstream call failed
\* or the response had no menu products it returned the empty sequence.
C3_SpecialsNeverPropagate ==
  \A i \in 1..Len(tasks) :
    /\ tasks[i].out.status # "rejected"
    /\ tasks[i].up \in {"failed", "nomenu"} =>
         /\ tasks[i].pc = "settled"
         /\ tasks[i].out = Fulfilled(<<>>)

C3_Witness ==
  /\ logged.what = "error"
  /\ logged.who >= 1
  /\ tasks[logged.who].up = "failed"
  /\ tasks[logged.who].pc = "settled"

\* C4: every input position is in at most one of storeSpecials and errors,
\* so the two together are no longer than the input; a store that succeeded
\* with zero specials is in neither.
C4_AtMostOnePlace ==
  Returned_ =>
    /\ Len(Ret.ssPos) = Len(Ret.storeSpecials)
    /\ Len(Ret.errPos) = Len(Ret.errors)
    /\ \A j \in 1..Len(Ret.ssPos) : Ret.ssPos[j] \in 1..N
    /\ \A j \in 1..Len(Ret.errPos) : Ret.errPos[j] \in 1..N
    /\ Injective(Ret.ssPos)
    /\ Injective(Ret.errPos)
    /\ \A j \in 1..Len(Ret.ssPos) : ~InSeq(Ret.ssPos[j], Ret.errPos)
    /\ Len(Ret.storeSpecials) + Len(Ret.errors) <= N
    /\ \A i \in 1..N :
         tasks[i].out = Fulfilled(<<>>) =>
           ~InSeq(i, Ret.ssPos) /\ ~InSeq(i, Ret.errPos)

C4_Witness ==
  /\ Returned_
  /\ \E i, k \in 1..N :
       /\ tasks[i].up = "ok"
       /\ tasks[i].out = Fulfilled(<<>>)
       /\ InSeq(k, Ret.ssPos)

\* C5: the stores of storeSpecials are the input stores that returned
\* specials, in input order, whatever the order in which the fetches settled.
C5_InputOrder ==
  Returned_ =>
    [j \in 1..Len(Ret.storeSpecials) |-> Ret.storeSpecials[j].store]
      = [j \in 1..Len(NonEmptyPositions) |-> stores[NonEmptyPositions[j]]]

C5_Witness ==
  /\ Returned_
  /\ agg.outOfOrder
  /\ Len(Ret.storeSpecials) = 2
  /\ Ret.storeSpecials[1].store # Ret.storeSpecials[2].store

\* C6: a store is in storeSpecials exactly when its fetch returned a
\* non-empty sequence; an entry's products are that sequence and its
\* specialCount their number (at least 1); totalSpecials is the sum of the
\* specialCounts.
C6_CountsAndTotal ==
  Returned_ =>
    /\ \A i \in 1..N :
         InSeq(i, Ret.ssPos) <=>
           (tasks[i].out.status = "fulfilled" /\ Len(tasks[i].out.value) > 0)
    /\ \A j \in 1..Len(Ret.storeSpecials) :
         /\ Ret.storeSpecials[j].products = tasks[Ret.ssPos[j]].out.value
         /\ Ret.storeSpecials[j].specialCount = Len(Ret.storeSpecials[j].products)
         /\ Ret.storeSpecials[j].specialCount >= 1
    /\ Ret.totalSpecials = SumCounts(Ret.storeSpecials)

C6_Witness ==
  /\ Returned_
  /\ Len(Ret.storeSpecials) = 2
  /\ Ret.totalSpecials = 4

\* C7: a call of fetchDutchieStores or fetchStoreSpecials whose kv.get
\* returned an entry issues no upstream request and returns that entry's
\* value; every other call issues exactly one, failed or not.
C7_UpstreamRequests ==
  /\ sc.calls <= 1
  /\ sc.pc = "settled" =>
       IF sc.got # <<>>
         THEN sc.calls = 0 /\ sc.out = Fulfilled(ParseStores(sc.got[1]))
         ELSE sc.calls = 1
  /\ \A i \in 1..Len(tasks) :
       /\ tasks[i].calls <= 1
       /\ tasks[i].pc = "settled" =>
            IF tasks[i].got # <<>>
              THEN /\ tasks[i].calls = 0
                   /\ tasks[i].out = Fulfilled(ParseProducts(tasks[i].got[1]))
              ELSE tasks[i].calls = 1

C7_Witness ==
  \E i, k \in 1..Len(tasks) :
    /\ tasks[i].pc = "settled"
    /\ tasks[i].got # <<>>
    /\ tasks[i].calls = 0
    /\ tasks[k].up = "failed"
    /\ tasks[k].calls = 1

\* C8: without a cache handle, or when kv.get throws, the call goes on to
\* the upstream as on a miss; when kv.put throws, the call returns what it
\* fetched; no call rejects.
C8_CacheFaultsAbsorbed ==
  /\ sc.out.status # "rejected"
  /\ \A i \in 1..Len(tasks) : tasks[i].out.status # "rejected"
  /\ ~getKVNamespace(locals) =>
       /\ sc.pc \notin {"get", "put"} /\ sc.got = <<>>
       /\ sc.pc = "settled" => sc.calls = 1
       /\ \A i \in 1..Len(tasks) :
            /\ tasks[i].pc \notin {"get", "put"} /\ tasks[i].got = <<>>
            /\ tasks[i].pc = "settled" => tasks[i].calls = 1
  /\ logged.what = "read" =>
       /\ Caller(logged.who).pc = "fetch"
       /\ Caller(logged.who).out = Pending
       /\ Caller(logged.who).calls = 0
  /\ logged.what = "write" =>
       /\ Caller(logged.who).pc = "settled"
       /\ Caller(logged.who).up = "ok"
       /\ Caller(logged.who).out = Fulfilled(Caller(logged.who).result)

C8_Witness ==
  /\ logged.what = "write"
  /\ logged.who >= 1
  /\ Len(tasks[logged.who].out.value) > 0

\* C9: fetchDutchieStores never rejects, and when the upstream request
\* failed or the response had no retailers it returned the empty sequence.
C9_StoresNeverPropagate ==
  /\ sc.out.status # "rejected"
  /\ sc.up \in {"failed", "nodata"} =>
       sc.pc = "settled" /\ sc.out = Fulfilled(<<>>)
  /\ (sc.up = "ok" /\ sc.result = <<>>) =>
       sc.pc = "settled" /\ sc.out = Fulfilled(<<>>)

C9_Witness ==
  /\ sc.pc = "settled"
  /\ sc.up = "failed"
  /\ logged.what = "error"

\* C10 (as the spec states it): no entry written by this code holds an empty
\* result.
C10_NoEmptyEntry ==
  \A key \in Keys : cache[key] # <<>> => Len(cache[key][1].text) > 0

\* C20: fetchMultipleStoreSpecials starts one fetchStoreSpecials per element
\* of its input, all of them before it waits, and returns only when every one
\* of them has settled: while it waits there is one call per input position,
\* each started, and when it has returned none is in flight and each has
\* issued at most one upstream request.
C20_StartsAllAwaitsAll ==
  /\ agg.pc \in {"awaiting", "returned"} =>
       /\ Len(tasks) = Len(stores)
       /\ \A i \in 1..Len(tasks) :
            tasks[i].pc \in {"get", "fetch", "put", "settled"}
  /\ agg.pc = "returned" =>
       \A i \in 1..Len(tasks) :
         /\ tasks[i].pc = "settled"
         /\ tasks[i].out.status # "pending"
         /\ tasks[i].calls <= 1

C20_Witness ==
  /\ Returned_
  /\ N = 2
  /\ agg.outOfOrder
  /\ tasks[1].calls = 1
  /\ tasks[2].calls = 1
  /\ tasks[1].out # tasks[2].out

\* C19: within one fetchMultipleStoreSpecials call a step changes one
\* per-store call only: no timeout, failure or completion of a sibling
\* cancels, fails or changes another store's call; a settled call stays as
\* it settled until the result has been taken; and a failing step writes
\* nothing to the cache.
C19_SiblingsUntouched ==
  [][ Len(tasks') = Len(tasks) =>
        /\ \A i, j \in 1..Len(tasks) :
             (i # j /\ tasks'[j] # tasks[j]) => tasks'[i] = tasks[i]
        /\ \A i \in 1..Len(tasks) :
             tasks[i].pc = "settled" => tasks'[i] = tasks[i]
        /\ logged'.what = "error" => cache' = cache ]_vars

C19_Witness ==
  /\ logged.what = "error"
  /\ logged.who >= 1
  /\ logged.message = <<"Request timeout after ", "10000", "ms">>
  /\ \E k \in 1..Len(tasks) :
       /\ k # logged.who
       /\ tasks[k].pc = "fetch"
       /\ tasks[k].calls = 0

\* C16: every entry written to the cache has TTL 900 and one of two keys:
\* "dutchie:stores:all", written by fetchDutchieStores with the retailers of
\* the store-list response it received, or "dutchie:specials:{storeId}",
\* written by the fetchStoreSpecials call for that storeId with the
\* on-special products of the response it received; a call for one store
\* reads and writes the entry of its own store only, and fetchDutchieStores
\* the store-list entry only.
C16_KeysAndValues ==
  [][ /\ \A key \in DOMAIN cache :
           (cache'[key] # cache[key] /\ cache'[key] # <<>>) =>
             /\ cache'[key][1].ttl = 900
             /\ \/ /\ key = <<"dutchie:stores:all">>
                   /\ sc.pc = "put"
                   /\ sc'.pc = "settled"
                   /\ cache'[key][1].text = StringifyStores(sc.result)
                \/ \E i \in 1..Len(tasks) :
                     /\ key = <<"dutchie:specials:", stores[i].id>>
                     /\ tasks[i].pc = "put"
                     /\ tasks'[i].pc = "settled"
                     /\ cache'[key][1].text = StringifyProducts(tasks[i].result)
      /\ (sc.pc = "fetch" /\ sc'.pc = "put") =>
           \E resp \in StoresResponses :
             resp.data.has /\ sc'.result = resp.data.list
      /\ \A i \in 1..Len(tasks) :
           (Len(tasks') = Len(tasks) /\ tasks'[i] # tasks[i]) =>
             LET own == <<"dutchie:specials:", stores[i].id>>
             IN  /\ \A key \in DOMAIN cache :
                      key # own => cache'[key] = cache[key]
                 /\ (tasks[i].pc = "get" /\ tasks'[i].got # <<>>) =>
                      /\ own \in DOMAIN cache
                      /\ cache[own] # <<>>
                      /\ tasks'[i].got = <<cache[own][1].text>>
                 /\ (tasks[i].pc = "fetch" /\ tasks'[i].pc = "put") =>
                      \E resp \in SpecialsResponses :
                        /\ resp.data.has
                        /\ tasks'[i].result = FilterSpecials(resp.data.list)
      /\ sc' # sc =>
           /\ \A key \in DOMAIN cache :
                key # <<"dutchie:stores:all">> => cache'[key] = cache[key]
           /\ (sc.pc = "get" /\ sc'.got # <<>>) =>
                /\ cache[<<"dutchie:stores:all">>] # <<>>
                /\ sc'.got = <<cache[<<"dutchie:stores:all">>][1].text>> ]_vars

C16_Witness ==
  /\ cache[<<"dutchie:stores:all">>] # <<>>
  /\ cache[<<"dutchie:specials:", "idA">>] # <<>>
  /\ cache[<<"dutchie:specials:", "idB">>] # <<>>
  /\ cache[<<"dutchie:specials:", "idA">>] # cache[<<"dutchie:specials:", "idB">>]
  /\ \E i \in 1..Len(tasks) : tasks[i].got # <<>> /\ stores[i] = StoreB

\* C25: the step in which the upstream request of a fetchDutchieStores or
\* fetchStoreSpecials call fails, or in which a specials response turns out
\* to have no menu products, ends the call (it never reaches its kv.put)
\* and leaves every cache entry as it was.
C25_FailureNotCached ==
  [][ /\ \A i \in 1..Len(tasks) :
           ( /\ Len(tasks') = Len(tasks)
             /\ tasks[i].pc = "fetch"
             /\ tasks'[i].up \in {"failed", "nomenu"} ) =>
             /\ tasks'[i].pc = "settled"
             /\ cache' = cache
      /\ (sc.pc = "fetch" /\ sc'.up = "failed") =>
           /\ sc'.pc = "settled"
           /\ cache' = cache ]_vars

\* the upstream request of a fetchStoreSpecials call has just failed and
\* the call has returned, while the cache holds an entry written earlier
C25_Witness ==
  /\ logged.what = "error"
  /\ logged.who > 0
  /\ tasks[logged.who].pc = "settled"
  /\ tasks[logged.who].up = "failed"
  /\ tasks[logged.who].calls = 1
  /\ \E key \in Keys : cache[key] # <<>>

\* ------------------------------------------------------------------------
\* SpecPure: the pure functions, each applied once to an input drawn from a
\* bounded set
\* ------------------------------------------------------------------------

\* longest menu.products handed to the filter
MaxProducts == 2

\* discounted price above the regular price
ProdHigher == [id |-> "p5", variants |-> <<Variant(1000, 1200)>>]
\* discounted price 0
ProdZero == [id |-> "p6", variants |-> <<Variant(1000, 0)>>]
\* no variants
ProdBare == [id |-> "p7", variants |-> <<>>]

ProductUniverse ==
  {ProdDeal, ProdPlain, ProdEqual, ProdSecond, ProdHigher, ProdZero, ProdBare}

ProductLists == UNION {[1..n -> ProductUniverse] : n \in 0..MaxProducts}

PureInput(fn, arg) == [fn |-> fn, arg |-> arg, applied |-> FALSE, out |-> <<>>]

FilterInputs == {PureInput("FilterSpecials", ps) : ps \in ProductLists}

\* specialsData.menu.products.filter(...) of fetchStoreSpecials
Apply_FilterSpecials ==
  /\ pure.fn = "FilterSpecials"
  /\ ~pure.applied
  /\ pure' = [pure EXCEPT !.applied = TRUE, !.out = FilterSpecials(pure.arg)]
  /\ UNCHANGED <<calls, req, history, batch>>

FilterTwiceInputs == {PureInput("FilterTwice", ps) : ps \in ProductLists}

\* the filter of fetchStoreSpecials, run on a product list and run again on
\* what it kept
Apply_FilterTwice ==
  /\ pure.fn = "FilterTwice"
  /\ ~pure.applied
  /\ pure' = [pure EXCEPT
                !.applied = TRUE,
                !.out = [once |-> FilterSpecials(pure.arg),
                         twice |-> FilterSpecials(FilterSpecials(pure.arg))]]
  /\ UNCHANGED <<calls, req, history, batch>>

Applied(fn) == pure.fn = fn /\ pure.applied

\* C23: the on-special filter, run on its own output, returns that output:
\* the same products in the same order.
C23_FilterIdempotent ==
  Applied("FilterTwice") => pure.out.twice = pure.out.once

\* the filter kept one of two products, and kept it again
C23_Witness ==
  /\ Applied("FilterTwice")
  /\ Len(pure.arg) = 2
  /\ Len(pure.out.once) = 1
  /\ pure.out.twice = pure.out.once

\* a variant's discounted price is present and strictly below its regular
\* price
HasLowerSpecial(product) ==
  \E j \in 1..Len(product.variants) :
    /\ Truthy(product.variants[j].specialPriceRec)
    /\ product.variants[j].specialPriceRec < product.variants[j].priceRec

\* C11 (as the spec states it): the products fetchStoreSpecials keeps from an
\* upstream response are exactly those with a variant whose discounted price
\* is present and strictly less than its regular price, in upstream order; no
\* product is kept whose discounted prices are all equal to or higher than
\* the regular price.
C11_StrictlyLowerOnly ==
  Applied("FilterSpecials") =>
    /\ \A j \in 1..Len(pure.out) : HasLowerSpecial(pure.out[j])
    /\ pure.out = SelectSeq(pure.arg, HasLowerSpecial)

\* the responses fetchFromDutchie is applied to: every delivery, 2xx and
\* other statuses, bodies that parse or not, errors absent, empty or with one
\* or two messages, data with or without the list the caller reads (an absent
\* member has no value)
ClassifiedResponses ==
  { Response(dl, st, pa, he, er, ha, li) :
      dl \in {"intime", "timeout", "neterror"},
      st \in {200, 204, 404, 500},
      pa \in BOOLEAN,
      he \in BOOLEAN,
      er \in {<<>>, <<"m1">>, <<"m1", "m2">>},
      ha \in BOOLEAN,
      li \in {<<>>, <<StoreA>>} }

ClientInputs ==
  {PureInput("fetchFromDutchie", [resp |-> r, timeoutMs |-> t]) :
     r \in {x \in ClassifiedResponses :
               (~x.hasErrors => x.errors = <<>>) /\ (~x.data.has => x.data.list = <<>>)},
     t \in {API_TIMEOUT_MS, 5000}}

\* fetchFromDutchie(query, variables, timeoutMs) on a given upstream response
Apply_fetchFromDutchie ==
  /\ pure.fn = "fetchFromDutchie"
  /\ ~pure.applied
  /\ pure' = [pure EXCEPT !.applied = TRUE,
                          !.out = fetchFromDutchie(pure.arg.resp, pure.arg.timeoutMs)]
  /\ UNCHANGED <<calls, req, history, batch>>

\* C14 (as the spec states it): of a response received in time, a non-2xx
\* status fails with "API Error: {status} - {body}" whatever the body holds;
\* a 2xx response with a non-empty errors list fails with "GraphQL Error: "
\* and the messages joined by ", "; a 2xx response whose errors member is
\* absent or an empty list returns the data payload.
C14_Classification ==
  (Applied("fetchFromDutchie") /\ pure.arg.resp.delivery = "intime") =>
    LET r == pure.arg.resp
        is2xx == r.status >= 200 /\ r.status <= 299
    IN  /\ ~is2xx =>
             pure.out = Threw(<<"API Error: ", ToString(r.status), " - ", r.body>>)
        /\ (is2xx /\ r.parsable /\ r.hasErrors /\ r.errors = <<"m1">>) =>
             pure.out = Threw(<<"GraphQL Error: ", "m1">>)
        /\ (is2xx /\ r.parsable /\ r.hasErrors /\ r.errors = <<"m1", "m2">>) =>
             pure.out = Threw(<<"GraphQL Error: ", "m1", ", ", "m2">>)
        /\ (is2xx /\ r.parsable /\ (~r.hasErrors \/ r.errors = <<>>)) =>
             pure.out = Returned(r.data)

\* ------------------------------------------------------------------------
\* src/lib/image-utils.ts: transformToWebP
\* ------------------------------------------------------------------------

\* A URL is the sequence of the pieces the two patterns of transformToWebP
\* cut it into: scheme and host, cloud name, "/image/upload/", version
\* segment, path.  NullUrl is null or undefined; <<>> is the empty string.
NullUrl == <<"null">>

VersionedUrl ==
  <<"https://res.cloudinary.com/", "dcltaajwj", "/image/upload/",
    "v1759857089/", "mintdeals/image.jpg">>

ImageUrls ==
  { NullUrl,
    <<>>,
    VersionedUrl,
    <<"https://res.cloudinary.com/", "dcltaajwj", "/image/upload/",
      "mintdeals/image.jpg">>,
    <<"https://res.cloudinary.com/", "dcltaajwj", "/image/upload/", "v1759857089/">>,
    <<"http://res.cloudinary.com/", "dcltaajwj", "/image/upload/",
      "v1759857089/", "mintdeals/image.jpg">>,
    <<"https://res.cloudinary.com/", "dcltaajwj", "/video/upload/",
      "v1759857089/", "clip.mp4">>,
    <<"https://strapi.example.com/", "uploads/image.jpg">> }

\* an option left out is Null (a number) or "undefined" (a string)
TransformOptions ==
  [width : {Null, 0, 800}, height : {Null, 600},
   format : {"undefined", "avif"}, quality : {Null, 80},
   crop : {"undefined", "fit"}]

\* options = {}
NoOptions ==
  [width |-> Null, height |-> Null, format |-> "undefined", quality |-> Null,
   crop |-> "undefined"]

\* url.includes('res.cloudinary.com')
IsCloudinary(url) ==
  \E j \in 1..Len(url) :
    url[j] \in {"https://res.cloudinary.com/", "http://res.cloudinary.com/"}

\* the base group of both patterns:
\* https://res.cloudinary.com/[^/]+/image/upload/
MatchesBase(url) ==
  /\ Len(url) >= 3
  /\ url[1] = "https://res.cloudinary.com/"
  /\ url[3] = "/image/upload/"

\* (v\d+/)
IsVersion(piece) == piece \in {"v1759857089/"}

\* cloudinaryPattern: base, version, and a path of at least one character
MatchesVersioned(url) == MatchesBase(url) /\ Len(url) >= 5 /\ IsVersion(url[4])

\* simplePattern: base and a path of at least one character
MatchesSimple(url) == MatchesBase(url) /\ Len(url) >= 4

\* transformations.join(','), as one string
RECURSIVE JoinString(_, _)
JoinString(strs, sep) ==
  IF Len(strs) = 0 THEN ""
  ELSE IF Len(strs) = 1 THEN strs[1]
  ELSE strs[1] \o sep \o JoinString(Tail(strs), sep)

\* `if (width || height) transformations.push(...)`
WantsCrop(width, height) == Truthy(width) \/ Truthy(height)

Transformations(options) ==
  LET width == options.width
      height == options.height
      format == IF options.format = "undefined" THEN "webp" ELSE options.format
      quality == IF options.quality = Null THEN "auto" ELSE ToString(options.quality)
      crop == IF options.crop = "undefined" THEN "fill" ELSE options.crop
  IN  (IF Truthy(width) THEN <<"w_" \o ToString(width)>> ELSE <<>>)
        \o (IF Truthy(height) THEN <<"h_" \o ToString(height)>> ELSE <<>>)
        \o (IF WantsCrop(width, height) THEN <<"c_" \o crop>> ELSE <<>>)
        \o <<"f_" \o format>>
        \o <<"q_" \o quality>>

transformToWebP(url, options) ==
  IF url = NullUrl \/ url = <<>> THEN NullUrl
  ELSE IF ~IsCloudinary(url) THEN url
  ELSE LET transformString == JoinString(Transformations(options), ",")
       IN  IF MatchesVersioned(url)
             THEN SubSeq(url, 1, 3) \o <<transformString, "/">>
                    \o <<url[4]>> \o SubSeq(url, 5, Len(url))
           ELSE IF MatchesSimple(url)
             THEN SubSeq(url, 1, 3) \o <<transformString, "/">>
                    \o SubSeq(url, 4, Len(url))
           ELSE url

ImageInputs ==
  {PureInput("transformToWebP", [url |-> u, options |-> o]) :
     u \in ImageUrls, o \in TransformOptions}

Apply_transformToWebP ==
  /\ pure.fn = "transformToWebP"
  /\ ~pure.applied
  /\ pure' = [pure EXCEPT !.applied = TRUE,
                          !.out = transformToWebP(pure.arg.url, pure.arg.options)]
  /\ UNCHANGED <<calls, req, history, batch>>

\* C18 (as the spec states it): on a versioned Cloudinary URL,
\* transformToWebP with {width: 800, height: 600} puts exactly the segment
\* "w_800,h_600,f_webp,q_auto" between "/image/upload/" and the version
\* segment, and with no options exactly "f_webp,q_auto"; the rest of the URL
\* is unchanged.
C18_DocExamples ==
  (Applied("transformToWebP") /\ pure.arg.url = VersionedUrl) =>
    /\ pure.arg.options = [NoOptions EXCEPT !.width = 800, !.height = 600] =>
         pure.out =
           <<"https://res.cloudinary.com/", "dcltaajwj", "/image/upload/",
             "w_800,h_600,f_webp,q_auto", "/",
             "v1759857089/", "mintdeals/image.jpg">>
    /\ pure.arg.options = NoOptions =>
         pure.out =
           <<"https://res.cloudinary.com/", "dcltaajwj", "/image/upload/",
             "f_webp,q_auto", "/",
             "v1759857089/", "mintdeals/image.jpg">>

\* ------------------------------------------------------------------------
\* calculateDiscount, in IEEE 754 double arithmetic
\* ------------------------------------------------------------------------

\* largest price calculateDiscount is applied to
MaxPrice == 40

\* A JavaScript number is a double.  A positive double is [hi, mid, lo, e]:
\* its 53-bit significand is hi * 2^36 + mid * 2^18 + lo, cut into limbs so
\* that every intermediate result below is under 2^31 (hi has 17 bits, its
\* top bit set; mid and lo have 18), and e is the exponent of the top bit:
\* the value is significand * 2^(e - 52).
SignificandBits == 53

LimbBits == 18

TopBits == SignificandBits - 2 * LimbBits

RECURSIVE Pow2(_)
Pow2(k) == IF k = 0 THEN 1 ELSE 2 * Pow2(k - 1)

Limb == Pow2(LimbBits)

\* the k with b <= a * 2^k < 2 * b, for 0 < a < b
RECURSIVE LeadShift(_, _)
LeadShift(a, b) == IF a >= b THEN 0 ELSE 1 + LeadShift(2 * a, b)

\* the significand plus one unit in the last place, renormalised when the
\* carry runs out of the top limb
NextUp(x) ==
  IF x.lo + 1 < Limb THEN [x EXCEPT !.lo = @ + 1]
  ELSE IF x.mid + 1 < Limb THEN [x EXCEPT !.lo = 0, !.mid = @ + 1]
  ELSE IF x.hi + 1 < Pow2(TopBits) THEN [x EXCEPT !.lo = 0, !.mid = 0, !.hi = @ + 1]
  ELSE [hi |-> Pow2(TopBits - 1), mid |-> 0, lo |-> 0, e |-> x.e + 1]

\* a / b for integers 0 < a < b < 2^13, rounded to nearest, ties to even:
\* long division, one limb of the quotient at a time
DoubleDivide(a, b) ==
  LET shift == LeadShift(a, b)
      n2 == a * Pow2(shift) * Pow2(TopBits - 1)
      n1 == (n2 % b) * Limb
      n0 == (n1 % b) * Limb
      rest == n0 % b
      quotient == [hi |-> n2 \div b, mid |-> n1 \div b, lo |-> n0 \div b,
                   e |-> 0 - shift]
      roundUp == \/ 2 * rest > b
                 \/ 2 * rest = b /\ quotient.lo % 2 = 1
  IN  IF roundUp THEN NextUp(quotient) ELSE quotient

\* the d with 2^(TopBits + d - 1) <= n < 2^(TopBits + d), for n >= 2^(TopBits - 1)
RECURSIVE ExtraBits(_)
ExtraBits(n) == IF n < Pow2(TopBits) THEN 0 ELSE 1 + ExtraBits(n \div 2)

\* x * c for a double x and an integer 1 <= c < 2^13, rounded to nearest,
\* ties to even: the exact product limb by limb, then the bits beyond the
\* 53rd are dropped
DoubleTimes(x, c) ==
  LET p0 == x.lo * c
      p1 == x.mid * c + p0 \div Limb
      p2 == x.hi * c + p1 \div Limb
      d0 == p0 % Limb
      d1 == p1 % Limb
      drop == ExtraBits(p2)
      keep == Pow2(LimbBits - drop)
      dropped == d0 % Pow2(drop)
      product == [hi |-> p2 \div Pow2(drop),
                  mid |-> (p2 % Pow2(drop)) * keep + d1 \div Pow2(drop),
                  lo |-> (d1 % Pow2(drop)) * keep + d0 \div Pow2(drop),
                  e |-> x.e + drop]
      half == IF drop = 0 THEN 1 ELSE Pow2(drop - 1)
      roundUp == /\ drop > 0
                 /\ \/ dropped > half
                    \/ dropped = half /\ product.lo % 2 = 1
  IN  IF roundUp THEN NextUp(product) ELSE product

\* Math.round of a positive double below 2^16: the integer part, plus one
\* when the fraction is at least one half
MathRound(x) ==
  IF x.e < 0 - 1 THEN 0
  ELSE x.hi \div Pow2(TopBits - 1 - x.e)
         + ((x.hi \div Pow2(TopBits - 2 - x.e)) % 2)

calculateDiscount(regular, special) ==
  IF ~Truthy(regular) \/ ~Truthy(special) \/ special >= regular THEN 0
  ELSE MathRound(DoubleTimes(DoubleDivide(regular - special, regular), 100))

\* the prices: null, 0..MaxPrice, and the two of the spec's example
Prices == {Null} \cup (0..MaxPrice) \cup {750, 1000}

DiscountInputs ==
  {PureInput("calculateDiscount", [regular |-> r, special |-> sp]) :
     r \in Prices, sp \in Prices}

Apply_calculateDiscount ==
  /\ pure.fn = "calculateDiscount"
  /\ ~pure.applied
  /\ pure' = [pure EXCEPT !.applied = TRUE,
                          !.out = calculateDiscount(pure.arg.regular, pure.arg.special)]
  /\ UNCHANGED <<calls, req, history, batch>>

\* 100 * (regular - special) / regular in exact arithmetic, rounded to the
\* nearest integer, a half rounded up
ExactPercent(regular, special) ==
  (2 * 100 * (regular - special) + regular) \div (2 * regular)

\* C17 (as the spec states it): calculateDiscount(regular, special) is 0 when
\* special >= regular or either argument is null or 0, and otherwise
\* ((regular - special) / regular) * 100 rounded to the nearest integer, a
\* half rounded up; calculateDiscount(1000, 750) = 25.
C17_RoundedPercent ==
  Applied("calculateDiscount") =>
    LET regular == pure.arg.regular
        special == pure.arg.special
    IN  /\ (regular \in {Null, 0} \/ special \in {Null, 0} \/ special >= regular) =>
             pure.out = 0
        /\ (regular \notin {Null, 0} /\ special \notin {Null, 0} /\ special < regular) =>
             pure.out = ExactPercent(regular, special)
        /\ (regular = 1000 /\ special = 750) => pure.out = 25

PureInputs ==
  FilterInputs \cup FilterTwiceInputs \cup ClientInputs \cup ImageInputs
    \cup DiscountInputs

InitPure ==
  /\ InitCalls
  /\ pure \in PureInputs
  /\ req = Parked
  /\ history = Parked
  /\ batch = Parked

NextPure ==
  \/ Apply_FilterSpecials
  \/ Apply_FilterTwice
  \/ Apply_fetchFromDutchie
  \/ Apply_transformToWebP
  \/ Apply_calculateDiscount

SpecPure == InitPure /\ [][NextPure]_vars

\* ------------------------------------------------------------------------
\* SpecTimeout: one fetchFromDutchie call step by step, with its timer and
\* the time that passes while the upstream is silent
\* ------------------------------------------------------------------------

\* how long a call is followed, in ticks
MaxTicks == 3

\* time passes in steps of half the default budget
TickMs == API_TIMEOUT_MS \div 2

\* the timeoutMs argument: the default, or half of it
TimeoutChoices == {API_TIMEOUT_MS, API_TIMEOUT_MS \div 2}

\* The call: pc is "idle", "fetch" (fetchWithTimeout awaits fetch), "text"
\* (fetchFromDutchie awaits response.text()) or "done"; timer = the timeout
\* set by setTimeout is pending; elapsed = milliseconds since the call
\* began, not counted further once the call is done; status =
\* response.status, once fetch has resolved (0 before); out = how it ended.
IdleRequest ==
  [pc |-> "idle", timeoutMs |-> API_TIMEOUT_MS, timer |-> FALSE, elapsed |-> 0,
   status |-> 0, out |-> Returned([has |-> FALSE, list |-> <<>>])]

\* what the upstream can send as status and body
ReceivedResponses == {r \in ClassifiedResponses : r.delivery = "intime"}

\* the call, down to `await fetch(...)`: the controller is made and the
\* timer set
fetchFromDutchie_Call ==
  /\ req.pc = "idle"
  /\ \E t \in TimeoutChoices :
       req' = [IdleRequest EXCEPT !.pc = "fetch", !.timeoutMs = t, !.timer = TRUE]
  /\ UNCHANGED <<calls, pure, history, batch>>

\* status and headers arrive: fetch resolves, clearTimeout runs,
\* fetchWithTimeout returns and fetchFromDutchie awaits response.text()
Upstream_Headers ==
  /\ req.pc = "fetch"
  /\ \E resp \in ReceivedResponses :
       req' = [req EXCEPT !.pc = "text", !.timer = FALSE, !.status = resp.status]
  /\ UNCHANGED <<calls, pure, history, batch>>

\* fetch rejects (connection refused, reset): clearTimeout, rethrow
Upstream_NetworkError ==
  /\ req.pc = "fetch"
  /\ req' = [req EXCEPT
               !.pc = "done", !.timer = FALSE,
               !.out = fetchWithTimeout([OkResponse(FALSE, <<>>) EXCEPT
                                           !.delivery = "neterror"],
                                        req.timeoutMs)]
  /\ UNCHANGED <<calls, pure, history, batch>>

\* the timer runs out: controller.abort(), fetch rejects with an AbortError,
\* the catch throws the timeout error
TimerFires ==
  /\ req.pc = "fetch"
  /\ req.timer
  /\ req.elapsed >= req.timeoutMs
  /\ req' = [req EXCEPT
               !.pc = "done", !.timer = FALSE,
               !.out = fetchWithTimeout([OkResponse(FALSE, <<>>) EXCEPT
                                           !.delivery = "timeout"],
                                        req.timeoutMs)]
  /\ UNCHANGED <<calls, pure, history, batch>>

\* the body arrives: response.text() resolves and the rest of
\* fetchFromDutchie runs
Upstream_Body ==
  /\ req.pc = "text"
  /\ \E resp \in ReceivedResponses :
       /\ resp.status = req.status
       /\ req' = [req EXCEPT !.pc = "done",
                             !.out = fetchFromDutchie(resp, req.timeoutMs)]
  /\ UNCHANGED <<calls, pure, history, batch>>

\* the connection breaks while the body is read: response.text() rejects
Upstream_BodyError ==
  /\ req.pc = "text"
  /\ req' = [req EXCEPT !.pc = "done", !.out = Threw(<<"fetch failed">>)]
  /\ UNCHANGED <<calls, pure, history, batch>>

\* time passes while the call is suspended; a pending timer runs when it is
\* due, so time does not pass beyond its deadline while it is pending
Tick ==
  /\ req.pc \in {"fetch", "text"}
  /\ req.elapsed < MaxTicks * TickMs
  /\ ~(req.timer /\ req.elapsed >= req.timeoutMs)
  /\ req' = [req EXCEPT !.elapsed = @ + TickMs]
  /\ UNCHANGED <<calls, pure, history, batch>>

\* the caller has taken the result
fetchFromDutchie_Return ==
  /\ req.pc = "done"
  /\ req' = IdleRequest
  /\ UNCHANGED <<calls, pure, history, batch>>

InitTimeout ==
  /\ InitCalls
  /\ pure = Parked
  /\ req = IdleRequest
  /\ history = Parked
  /\ batch = Parked

NextTimeout ==
  \/ fetchFromDutchie_Call
  \/ Upstream_Headers
  \/ Upstream_NetworkError
  \/ TimerFires
  \/ Upstream_Body
  \/ Upstream_BodyError
  \/ Tick
  \/ fetchFromDutchie_Return

\* the event loop runs a timer that is due, and time passes; the upstream
\* owes nothing
SpecTimeout ==
  /\ InitTimeout
  /\ [][NextTimeout]_vars
  /\ WF_vars(TimerFires)
  /\ WF_vars(Tick)

\* C13 (as the spec states it): a fetchFromDutchie call is never still
\* waiting once its timeout budget is spent, and a call whose response
\* (status and body) had not arrived within the budget ends with "Request
\* timeout after {timeoutMs}ms".
C13_EndsWithinBudget ==
  /\ req.pc \in {"fetch", "text"} => req.elapsed <= req.timeoutMs
  /\ (req.pc = "done" /\ req.elapsed > req.timeoutMs) =>
       req.out = Threw(<<"Request timeout after ", ToString(req.timeoutMs), "ms">>)

\* ------------------------------------------------------------------------
\* fetchStoreSpecialsInBatches(stores, batchSize, locals), beside one
\* fetchMultipleStoreSpecials(stores, locals) call on the same list, the
\* upstream answering every request for a store in the same way
\* ------------------------------------------------------------------------

\* the batch sizes a caller passes; 10 is the default of the parameter
BatchSizes == {0 - 1, 0, 1, 2, 10}

MaxBatchStores == 3

\* the loop is followed for at most this many batches, one more than any
\* list has stores
MaxRounds == MaxBatchStores + 1

\* the store lists a caller passes, up to renaming of the stores
BatchLists ==
  {list \in UNION {[1..n -> StoreUniverse] : n \in 0..MaxBatchStores} :
     Len(list) > 0 => list[1] = StoreA}

\* what the upstream answers for a store, every time it is asked
BatchResponses ==
  { Response("timeout", 200, TRUE, FALSE, <<>>, FALSE, <<>>),
    OkResponse(TRUE, <<ProdPlain, ProdEqual>>),
    OkResponse(TRUE, <<ProdDeal, ProdPlain, ProdSecond>>) }

Upstreams == [StoreIds -> BatchResponses]

\* The fetchStoreSpecialsInBatches call: pc is "idle", "whole" (the one
\* fetchMultipleStoreSpecials call on the whole list is running), "ready",
\* "loop" (at the loop test), "awaiting" (suspended at the await of the
\* loop body), "returned" or "threw"; stores, batchSize and i are the
\* parameters and the loop variable; allStoreSpecials, totalSpecials and
\* allErrors the accumulators. upstream is the upstream's answer per store,
\* whole what the call on the whole list returned, and chunks the batches
\* sliced off so far, in the order they were sliced.
IdleBatch(upstream) ==
  [pc |-> "idle", upstream |-> upstream, whole |-> EmptyAcc,
   stores |-> <<>>, batchSize |-> 0, i |-> 0, chunks |-> <<>>,
   allStoreSpecials |-> <<>>, totalSpecials |-> 0, allErrors |-> <<>>]

Min(a, b) == IF a < b THEN a ELSE b

RECURSIVE Flatten(_)
Flatten(seqs) == IF seqs = <<>> THEN <<>> ELSE Head(seqs) \o Flatten(Tail(seqs))

Max(a, b) == IF a > b THEN a ELSE b

\* an index argument of Array.prototype.slice: a negative one counts from
\* the end, and both are clamped to 0..length
SliceIndex(k, length) == IF k < 0 THEN Max(length + k, 0) ELSE Min(k, length)

\* variant: the slice runs one store into the next batch
SliceOverlapping(list, i, batchSize) ==
  SubSeq(list, SliceIndex(i, Len(list)) + 1,
         SliceIndex(i + batchSize + 1, Len(list)))

\* stores.slice(i, i + batchSize)
Slice(list, i, batchSize) ==
  SubSeq(list, SliceIndex(i, Len(list)) + 1, SliceIndex(i + batchSize, Len(list)))

\* variant: the batch's items go in front of the ones already collected
UnshiftAll(all, items) == items \o all

\* all.push(...items)
PushAll(all, items) == all \o items

\* the page calls fetchMultipleStoreSpecials(stores, locals) on the whole list
fetchMultipleStoreSpecials_Whole ==
  /\ batch.pc = "idle"
  /\ \E list \in BatchLists, l \in LocalsChoices :
       /\ fetchMultipleStoreSpecials_Call(list, l)
       /\ batch' = [batch EXCEPT !.pc = "whole", !.stores = list]

\* and takes its result
fetchMultipleStoreSpecials_WholeDone ==
  /\ batch.pc = "whole"
  /\ agg.pc \in {"returned", "threw"}
  /\ batch' = [batch EXCEPT !.pc = "ready", !.whole = agg.ret]
  /\ agg' = IdleAgg
  /\ tasks' = <<>>
  /\ logged' = NoLog
  /\ UNCHANGED <<cache, locals, sc, stores>>

\* the page calls fetchStoreSpecialsInBatches(stores, batchSize, locals):
\* the accumulators are set up and the loop starts at i = 0
fetchStoreSpecialsInBatches_Call ==
  /\ batch.pc = "ready"
  /\ \E size \in BatchSizes :
       batch' = [batch EXCEPT !.pc = "loop", !.batchSize = size, !.i = 0,
                              !.allStoreSpecials = <<>>, !.totalSpecials = 0,
                              !.allErrors = <<>>]
  /\ UNCHANGED calls

\* `i < stores.length` holds: the batch is sliced off and
\* fetchMultipleStoreSpecials(batch, locals) is called and awaited
fetchStoreSpecialsInBatches_Batch ==
  /\ batch.pc = "loop"
  /\ batch.i < Len(batch.stores)
  /\ Len(batch.chunks) < MaxRounds
  /\ fetchMultipleStoreSpecials_Call(Slice(batch.stores, batch.i, batch.batchSize),
                                     locals)
  /\ batch' = [batch EXCEPT
                 !.pc = "awaiting",
                 !.chunks = Append(@, Slice(batch.stores, batch.i, batch.batchSize))]

\* the awaited call returns: its results are appended to the accumulators
\* and `i += batchSize` runs
fetchStoreSpecialsInBatches_Collect ==
  /\ batch.pc = "awaiting"
  /\ agg.pc \in {"returned", "threw"}
  /\ batch' =
       IF agg.pc = "threw"
         THEN [batch EXCEPT !.pc = "threw"]
         ELSE [batch EXCEPT
                 !.pc = "loop",
                 !.allStoreSpecials = PushAll(@, agg.ret.storeSpecials),
                 !.totalSpecials = @ + agg.ret.totalSpecials,
                 !.allErrors = PushAll(@, agg.ret.errors),
                 !.i = @ + batch.batchSize]
  /\ agg' = IdleAgg
  /\ tasks' = <<>>
  /\ logged' = NoLog
  /\ UNCHANGED <<cache, locals, sc, stores>>

\* `i < stores.length` fails: the accumulators are returned
fetchStoreSpecialsInBatches_Return ==
  /\ batch.pc = "loop"
  /\ batch.i >= Len(batch.stores)
  /\ batch' = [batch EXCEPT !.pc = "returned"]
  /\ UNCHANGED calls

\* the upstream answers the request of task i as it answers for that store
Upstream_Specials(i) ==
  fetchStoreSpecials_Receive(i, batch.upstream[stores[i].id])

InitBatch ==
  /\ InitCalls
  /\ pure = Parked
  /\ req = Parked
  /\ history = Parked
  /\ batch \in {IdleBatch(u) : u \in Upstreams}

NextBatch ==
  \/ fetchMultipleStoreSpecials_Whole /\ UNCHANGED <<pure, req, history>>
  \/ fetchMultipleStoreSpecials_WholeDone /\ UNCHANGED <<pure, req, history>>
  \/ fetchStoreSpecialsInBatches_Call /\ UNCHANGED <<pure, req, history>>
  \/ fetchStoreSpecialsInBatches_Batch /\ UNCHANGED <<pure, req, history>>
  \/ fetchStoreSpecialsInBatches_Collect /\ UNCHANGED <<pure, req, history>>
  \/ fetchStoreSpecialsInBatches_Return /\ UNCHANGED <<pure, req, history>>
  \/ \E i \in 1..Len(tasks) :
       fetchStoreSpecials_Get(i) /\ UNCHANGED <<pure, req, history, batch>>
  \/ \E i \in 1..Len(tasks) :
       Upstream_Specials(i) /\ UNCHANGED <<pure, req, history, batch>>
  \/ \E i \in 1..Len(tasks) :
       fetchStoreSpecials_Put(i) /\ UNCHANGED <<pure, req, history, batch>>
  \/ fetchMultipleStoreSpecials_Join /\ UNCHANGED <<pure, req, history, batch>>
  \/ \E key \in Keys : KVExpire(key) /\ UNCHANGED <<pure, req, history, batch>>

SpecBatch == InitBatch /\ [][NextBatch]_vars

\* C12: once the batch loop has returned, its storeSpecials, totalSpecials
\* and errors are those of the one fetchMultipleStoreSpecials call on the
\* whole list, entry for entry and in the same order.
C12_BatchesEqualWhole ==
  batch.pc = "returned" =>
    /\ batch.allStoreSpecials = batch.whole.storeSpecials
    /\ batch.totalSpecials = batch.whole.totalSpecials
    /\ batch.allErrors = batch.whole.errors

\* C21: with batch size b >= 1 the batches sliced off are consecutive runs
\* of b stores of the input, the last one possibly shorter, and together
\* they are the input, store for store; the per-store fetches in progress
\* are those of the batch sliced last, at most b of them, and all of them
\* have settled when the awaited call returns and the loop moves on.
C21_ChunksInTurn ==
  LET b == batch.batchSize
      done == Flatten(batch.chunks)
      n == Len(batch.chunks)
  IN  (batch.pc \in {"loop", "awaiting", "returned"} /\ b >= 1) =>
        /\ done = SubSeq(batch.stores, 1, Len(done))
        /\ \A k \in 1..n :
             /\ Len(batch.chunks[k]) >= 1
             /\ Len(batch.chunks[k]) <= b
             /\ k < n => Len(batch.chunks[k]) = b
        /\ batch.pc = "returned" => done = batch.stores
        /\ batch.pc = "awaiting" =>
             /\ stores = batch.chunks[n]
             /\ Len(tasks) = Len(stores)
             /\ agg.pc = "returned" => AllTasksSettled
        /\ batch.pc # "awaiting" => tasks = <<>>
        /\ Cardinality({i \in 1..Len(tasks) : tasks[i].out.status = "pending"}) <= b

\* a list of three stores has been cut into a batch of two and a batch of
\* one, and the second batch is in progress with its fetch not yet settled
C21_Witness ==
  /\ batch.pc = "awaiting"
  /\ Len(batch.stores) = 3
  /\ batch.batchSize = 2
  /\ Len(batch.chunks) = 2
  /\ Len(tasks) = 1
  /\ tasks[1].pc = "fetch"

\* what a fetchStoreSpecials call for the store derives from the answer the
\* upstream gives for it
Derived(storeId) ==
  LET r == fetchFromDutchie(batch.upstream[storeId], API_TIMEOUT_MS)
  IN  IF r.threw \/ ~r.data.has THEN <<>> ELSE FilterSpecials(r.data.list)

\* C22: with an upstream whose answer per store does not change, every
\* entry written under a store's key is the one value derived from that
\* answer, and every fetchStoreSpecials call for the store returns that
\* value, whichever way the get, fetch and put steps of the concurrent
\* calls interleave.
C22_SameValueEveryWrite ==
  /\ \A id \in StoreIds :
       cache[SpecialsKey(id)] # <<>> =>
         cache[SpecialsKey(id)] =
           <<Entry(StringifyProducts(Derived(id)), CACHE_TTL_SECONDS)>>
  /\ \A i \in 1..Len(tasks) :
       tasks[i].pc = "settled" => tasks[i].out = Fulfilled(Derived(stores[i].id))

\* two concurrent calls for one store have both missed, both fetched and
\* have returned; the entry one of them wrote is in the cache
C22_Witness ==
  /\ Len(tasks) >= 2
  /\ stores[1] = stores[2]
  /\ \A i \in 1..2 :
       /\ tasks[i].pc = "settled"
       /\ tasks[i].calls = 1
       /\ tasks[i].up = "ok"
       /\ Len(tasks[i].out.value) > 0
  /\ cache[SpecialsKey(stores[1].id)] # <<>>
  /\ logged.what # "write"

\* C24 (as the spec states it): the loop of fetchStoreSpecialsInBatches
\* ends, whatever integer the batch size is: it never slices more batches
\* than the list has stores.
C24_LoopEnds ==
  batch.pc \in {"loop", "awaiting", "returned"} =>
    Len(batch.chunks) <= Len(batch.stores)

\* the list was cut into two batches, each of which brought specials, and
\* at least one of them was served from the cache
C12_Witness ==
  /\ batch.pc = "returned"
  /\ batch.batchSize >= 1
  /\ Len(batch.stores) >= 2
  /\ batch.batchSize < Len(batch.stores)
  /\ Len(batch.allStoreSpecials) = Len(batch.stores)
  /\ batch.allStoreSpecials[1].store # batch.allStoreSpecials[2].store
  /\ cache[SpecialsKey("idB")] # <<>>

\* ------------------------------------------------------------------------
\* Repeated calls for one key within the TTL of its cache entry
\* ------------------------------------------------------------------------

\* what a call found on record for its key when it was made
NoSnap == [fetched |-> <<>>, written |-> <<>>]

\* Recorded for the properties, beside the calls:
\*   faulty    a kv.get or kv.put has thrown
\*   fetched   per key, <<result>> of the first call that, with a KV
\*             namespace, returned a result it had fetched from the upstream
\*   written   per key, <<result>> of the call whose kv.put stored the entry
\*             the cache holds
\*   seen      per call in progress (0 the fetchDutchieStores call, i the
\*             task i), fetched and written of its key when the call was made
\* fetched and written of a key are forgotten when its TTL elapses.
NoHistory ==
  [faulty |-> FALSE,
   fetched |-> [k \in Keys |-> <<>>],
   written |-> [k \in Keys |-> <<>>],
   seen |-> [who \in {0} |-> NoSnap]]

KeyOf(who) == IF who = 0 THEN StoresKey ELSE SpecialsKey(stores'[who].id)

Before(who) ==
  IF who = 0 THEN sc ELSE IF who <= Len(tasks) THEN tasks[who] ELSE IdleCall

After(who) == IF who = 0 THEN sc' ELSE tasks'[who]

\* the step returns, from a call that has a KV namespace, a result that the
\* call fetched from the upstream
ReturnsFetched(who) ==
  /\ Before(who).pc \notin {"idle", "settled"}
  /\ After(who).pc = "settled"
  /\ After(who).calls = 1
  /\ After(who).up = "ok"
  /\ getKVNamespace(locals')

\* the step completes the kv.put of the call
PutStored(who) ==
  /\ Before(who).pc = "put"
  /\ After(who).pc = "settled"
  /\ logged'.what # "write"

\* the record after a step of the calls
Noted ==
  LET Callers == 0..Len(tasks')
      First(k) == CHOOSE who \in Callers : KeyOf(who) = k /\ ReturnsFetched(who)
      Writer(k) == CHOOSE who \in Callers : KeyOf(who) = k /\ PutStored(who)
  IN  [faulty |-> history.faulty \/ logged'.what \in {"read", "write"},
       fetched |-> [k \in Keys |->
         IF /\ history.fetched[k] = <<>>
            /\ \E who \in Callers : KeyOf(who) = k /\ ReturnsFetched(who)
           THEN <<After(First(k)).out.value>>
           ELSE history.fetched[k]],
       written |-> [k \in Keys |->
         IF \E who \in Callers : KeyOf(who) = k /\ PutStored(who)
           THEN <<After(Writer(k)).out.value>>
           ELSE history.written[k]],
       seen |-> [who \in Callers |->
         IF After(who).pc = "idle" THEN NoSnap
         ELSE IF Before(who).pc = "idle"
           THEN [fetched |-> history.fetched[KeyOf(who)],
                 written |-> history.written[KeyOf(who)]]
         ELSE history.seen[who]]]

\* 900 seconds have passed since the entry of the key was written, or since
\* the first call for the key returned: the KV namespace drops the entry
TTLElapses(key) ==
  /\ cache[key] # <<>> \/ history.fetched[key] # <<>>
  /\ IF cache[key] # <<>>
       THEN KVExpire(key)
       ELSE logged' = NoLog /\ UNCHANGED <<cache, locals, sc, stores, tasks, agg>>
  /\ history' =
       [history EXCEPT
          !.fetched[key] = <<>>,
          !.written[key] = <<>>,
          !.seen = [who \in DOMAIN @ |->
                      IF KeyOf(who) = key THEN NoSnap ELSE @[who]]]

\* the store lists of the repeated calls: one store, alone or named twice,
\* so that every fetchStoreSpecials call is for the same key
RepeatLists == { <<StoreA>>, <<StoreA, StoreA>> }

\* a page calls fetchMultipleStoreSpecials with one of these lists
fetchMultipleStoreSpecials_Repeat ==
  /\ NoCallInProgress
  /\ \E list \in RepeatLists, l \in LocalsChoices :
       fetchMultipleStoreSpecials_Call(list, l)

InitRepeat ==
  /\ InitCalls
  /\ pure = Parked
  /\ req = Parked
  /\ batch = Parked
  /\ history = NoHistory

NextRepeat ==
  \/ fetchDutchieStores_Start /\ history' = Noted /\ UNCHANGED <<pure, req, batch>>
  \/ fetchDutchieStores_Get /\ history' = Noted /\ UNCHANGED <<pure, req, batch>>
  \/ fetchDutchieStores_Fetch /\ history' = Noted /\ UNCHANGED <<pure, req, batch>>
  \/ fetchDutchieStores_Put /\ history' = Noted /\ UNCHANGED <<pure, req, batch>>
  \/ fetchDutchieStores_Done /\ history' = Noted /\ UNCHANGED <<pure, req, batch>>
  \/ fetchMultipleStoreSpecials_Repeat /\ history' = Noted
       /\ UNCHANGED <<pure, req, batch>>
  \/ \E i \in 1..Len(tasks) :
       fetchStoreSpecials_Get(i) /\ history' = Noted /\ UNCHANGED <<pure, req, batch>>
  \/ \E i \in 1..Len(tasks) :
       fetchStoreSpecials_Fetch(i) /\ history' = Noted /\ UNCHANGED <<pure, req, batch>>
  \/ \E i \in 1..Len(tasks) :
       fetchStoreSpecials_Put(i) /\ history' = Noted /\ UNCHANGED <<pure, req, batch>>
  \/ fetchMultipleStoreSpecials_Join /\ history' = Noted
       /\ UNCHANGED <<pure, req, batch>>
  \/ fetchMultipleStoreSpecials_Done /\ history' = Noted
       /\ UNCHANGED <<pure, req, batch>>
  \/ \E key \in Keys : TTLElapses(key) /\ UNCHANGED <<pure, req, batch>>

SpecRepeat == InitRepeat /\ [][NextRepeat]_vars

\* the call who was made, with a KV namespace that has not failed, after a
\* call for its key left `first` on record, and is served from the cache:
\* no upstream request, and the recorded result once it has returned
ServedFromCache(who, first) ==
  (~history.faulty /\ getKVNamespace(locals) /\ first # <<>>) =>
    /\ Caller(who).calls = 0
    /\ Caller(who).pc \notin {"fetch", "put"}
    /\ Caller(who).pc = "settled" => Caller(who).out = Fulfilled(first[1])

FixedStoresResponses ==
  { Response("timeout", 200, TRUE, FALSE, <<>>, FALSE, <<>>),
    OkResponse(TRUE, <<>>),
    OkResponse(TRUE, <<StoreA, StoreB>>) }

\* the upstream: its answer to the store-list query and to the specials
\* query of each store
FixedUpstreams ==
  [stores : FixedStoresResponses, specials : [StoreIds -> BatchResponses]]

Upstream_FixedStores == fetchDutchieStores_Receive(history.stores)

Upstream_FixedSpecials(i) ==
  fetchStoreSpecials_Receive(i, history.specials[stores[i].id])

InitFixed ==
  /\ InitCalls
  /\ pure = Parked
  /\ req = Parked
  /\ batch = Parked
  /\ history \in FixedUpstreams

NextFixed ==
  \/ fetchDutchieStores_Start /\ UNCHANGED <<pure, req, history, batch>>
  \/ fetchDutchieStores_Get /\ UNCHANGED <<pure, req, history, batch>>
  \/ Upstream_FixedStores /\ UNCHANGED <<pure, req, history, batch>>
  \/ fetchDutchieStores_Put /\ UNCHANGED <<pure, req, history, batch>>
  \/ fetchDutchieStores_Done /\ UNCHANGED <<pure, req, history, batch>>
  \/ fetchMultipleStoreSpecials_Start /\ UNCHANGED <<pure, req, history, batch>>
  \/ \E i \in 1..Len(tasks) :
       fetchStoreSpecials_Get(i) /\ UNCHANGED <<pure, req, history, batch>>
  \/ \E i \in 1..Len(tasks) :
       Upstream_FixedSpecials(i) /\ UNCHANGED <<pure, req, history, batch>>
  \/ \E i \in 1..Len(tasks) :
       fetchStoreSpecials_Put(i) /\ UNCHANGED <<pure, req, history, batch>>
  \/ fetchMultipleStoreSpecials_Join /\ UNCHANGED <<pure, req, history, batch>>
  \/ fetchMultipleStoreSpecials_Done /\ UNCHANGED <<pure, req, history, batch>>
  \/ \E key \in Keys : KVExpire(key) /\ UNCHANGED <<pure, req, history, batch>>

SpecFixed == InitFixed /\ [][NextFixed]_vars

\* what a call derives from the upstream's answer when it asks the upstream
\* itself
StoresFromUpstream ==
  LET r == fetchFromDutchie(history.stores, API_TIMEOUT_MS)
  IN  IF r.threw THEN <<>> ELSE RetailersOf(r.data)

SpecialsFromUpstream(storeId) ==
  LET r == fetchFromDutchie(history.specials[storeId], API_TIMEOUT_MS)
  IN  IF r.threw \/ ~r.data.has THEN <<>> ELSE FilterSpecials(r.data.list)

AggregateFromUpstream ==
  ProcessResults(
    AllSettled(stores, [i \in 1..Len(stores) |->
                          Fulfilled(SpecialsFromUpstream(stores[i].id))]),
    stores, 1, EmptyAcc)

\* C26: against an upstream that answers each key the same way every time,
\* whatever calls came before and whether the call has a KV namespace that
\* works, none, or one whose get and put throw, fetchDutchieStores returns
\* the stores, fetchStoreSpecials the products and
\* fetchMultipleStoreSpecials the storeSpecials and totalSpecials that the
\* upstream's answers alone determine.
C26_CacheTransparent ==
  /\ sc.pc = "settled" => sc.out = Fulfilled(StoresFromUpstream)
  /\ \A i \in 1..Len(tasks) :
       tasks[i].pc = "settled" =>
         tasks[i].out = Fulfilled(SpecialsFromUpstream(stores[i].id))
  /\ agg.pc = "returned" =>
       /\ agg.ret.storeSpecials = AggregateFromUpstream.storeSpecials
       /\ agg.ret.totalSpecials = AggregateFromUpstream.totalSpecials

\* a fetchMultipleStoreSpecials call over two stores has returned specials
\* for both, one served from the cache and one fetched after its kv.get
\* threw
C26_Witness ==
  /\ agg.pc = "returned"
  /\ Len(tasks) = 2
  /\ Len(agg.ret.storeSpecials) = 2
  /\ tasks[1].calls = 0
  /\ tasks[2].calls = 1
  /\ tasks[2].got = <<>>
  /\ cache[SpecialsKey(stores[2].id)] # <<>>

====
